---- MODULE Spec2Model ----
(***************************************************************************)
(* Model of the connection-and-request core of src/src/rtm_client.cpp:     *)
(* secure_client (state machine, write serializer, request table, ping     *)
(* scheduler, subscription registry, PDU dispatcher) and resilient_client. *)
(*                                                                         *)
(* The program runs on one event-loop thread, so every handler is one      *)
(* atomic action.  Handlers are written as operators from a state record   *)
(* (the fields of the objects, under their source names) to the state      *)
(* record after the handler returned; State assembles the record from the  *)
(* variables and Apply writes it back.  A failed CHECK / ABORT() ends the   *)
(* process: it is recorded in the field fatal, and a dead process takes no *)
(* further step.                                                           *)
(***************************************************************************)
EXTENDS Integers, Sequences, FiniteSets, TLC

(* ------------------------------ bounds -------------------------------- *)

\* ids new_request_id() may hand out in one run of Spec
MaxRequestId == 3
\* ids new_request_id() may hand out in one run of SubSpec
MaxSubRequestId == 4
\* timer handlers that may be queued at once when start() is called
MaxQueuedTimers == 1
\* secure clients the resilient client's factory may construct in one run
MaxClients == 2

\* the entries the application lets _subscriptions of a resilient client grow to
MaxSubscriptions == 2
\* elements of body.messages of one rtm/subscription/data PDU
MaxMessages == 2
\* calls a thread-checking client has posted to the loop and not yet run
MaxPosted == 2

(* --------------------------- input domains ---------------------------- *)

Channels == {"a", "b"}
\* subscription handles (compared by address in the source)
Handles == {"h1", "h2"}
\* request_callbacks *callbacks: a null pointer or a per-request sink
RequestCallbacks == {"nullptr", "cbs"}
\* the elements of body.messages, and the arrays a data PDU may carry
Messages == {"m1", "m2"}
MessageArrays == UNION { [1..n -> Messages] : n \in 0..MaxMessages }

STOPPED == "STOPPED"
RUNNING == "RUNNING"
PENDING_STOPPED == "PENDING_STOPPED"

PUBLISH == "PUBLISH"
SUBSCRIBE == "SUBSCRIBE"
UNSUBSCRIBE == "UNSUBSCRIBE"

\* boost::system::error_code values the handlers tell apart
EcOk == "ok"
EcAborted == "operation_aborted"
EcError == "error"

\* std::thread::id of the thread that runs the event loop, and the threads
\* of the application
_io_thread_id == "loop"
Threads == {"loop", "worker"}

VARIABLES
  \* secure_client (instance: the number of clients constructed so far)
  _client_state, _channel_subscriptions, _ping_times, _sent_request_infos,
  _pending_requests, _request_in_flight, _common_error_callbacks, instance,
  \* static counter of new_request_id
  request_id,
  \* resilient_client
  _client, _subscriptions, _started,
  \* transport (boost::asio / beast objects owned by the secure client)
  socket, read_op, io_op, timer_wait, timer_ready, timer_aborted,
  control_callback,
  \* handlers still queued for clients the resilient client has destroyed
  zombies,
  \* the server's end of the connection
  srv_requests, srv_subs, srv_pings,
  \* observations: what was handed to the transport and the sinks
  \* enqueued, wire, completed: the ids pushed on _pending_requests, the ids
  \* handed to the transport and the number of completed operations of the
  \* current client; replayed: the subscribe calls of the last restart;
  \* calls: the sink calls the last handler made, in order
  enqueued, wire, completed, replayed, calls,
  \* thread_checking_client: posted, the calls handed to _io.post() that the
  \* loop has not run yet; this_thread, the thread that ran the last step
  posted, this_thread,
  \* the subscribe request last serialized: the arguments and the document
  built,
  \* "" while the process runs, else the CHECK / ABORT that ended it
  fatal

vars == << _client_state, _channel_subscriptions, _ping_times,
           _sent_request_infos, _pending_requests, _request_in_flight,
           _common_error_callbacks, instance, request_id, _client,
           _subscriptions, _started, socket, read_op, io_op, timer_wait,
           timer_ready, timer_aborted, control_callback, zombies,
           srv_requests, srv_subs, srv_pings, enqueued, wire, completed,
           replayed, calls, posted, this_thread, built, fatal >>

State ==
  [ _client_state |-> _client_state,
    _channel_subscriptions |-> _channel_subscriptions,
    _ping_times |-> _ping_times,
    _sent_request_infos |-> _sent_request_infos,
    _pending_requests |-> _pending_requests,
    _request_in_flight |-> _request_in_flight,
    _common_error_callbacks |-> _common_error_callbacks,
    instance |-> instance,
    request_id |-> request_id,
    _client |-> _client,
    _subscriptions |-> _subscriptions,
    _started |-> _started,
    socket |-> socket,
    read_op |-> read_op,
    io_op |-> io_op,
    timer_wait |-> timer_wait,
    timer_ready |-> timer_ready,
    timer_aborted |-> timer_aborted,
    control_callback |-> control_callback,
    zombies |-> zombies,
    srv_requests |-> srv_requests,
    srv_subs |-> srv_subs,
    srv_pings |-> srv_pings,
    enqueued |-> enqueued,
    wire |-> wire,
    completed |-> completed,
    replayed |-> replayed,
    calls |-> calls,
    posted |-> posted,
    this_thread |-> this_thread,
    built |-> built,
    fatal |-> fatal ]

Apply(s) ==
  /\ _client_state' = s._client_state
  /\ _channel_subscriptions' = s._channel_subscriptions
  /\ _ping_times' = s._ping_times
  /\ _sent_request_infos' = s._sent_request_infos
  /\ _pending_requests' = s._pending_requests
  /\ _request_in_flight' = s._request_in_flight
  /\ _common_error_callbacks' = s._common_error_callbacks
  /\ instance' = s.instance
  /\ request_id' = s.request_id
  /\ _client' = s._client
  /\ _subscriptions' = s._subscriptions
  /\ _started' = s._started
  /\ socket' = s.socket
  /\ read_op' = s.read_op
  /\ io_op' = s.io_op
  /\ timer_wait' = s.timer_wait
  /\ timer_ready' = s.timer_ready
  /\ timer_aborted' = s.timer_aborted
  /\ control_callback' = s.control_callback
  /\ zombies' = s.zombies
  /\ srv_requests' = s.srv_requests
  /\ srv_subs' = s.srv_subs
  /\ srv_pings' = s.srv_pings
  /\ enqueued' = s.enqueued
  /\ wire' = s.wire
  /\ completed' = s.completed
  /\ replayed' = s.replayed
  /\ calls' = s.calls
  /\ posted' = s.posted
  /\ this_thread' = s.this_thread
  /\ built' = s.built
  /\ fatal' = s.fatal

\* CHECK(...) failed or ABORT(): the process ends here
Fatal(s, why) == [s EXCEPT !.fatal = why]

Alive(s) == s.fatal = ""

(* ------------------------- new_request_id ----------------------------- *)

new_request_id_restarting(s) == 1

\* return request_id++ : the value handed out; the caller stores Bump(s)
new_request_id(s) == s.request_id

Bump(s) == [s EXCEPT !.request_id = @ + 1]

(* -------------------------- subscribe_request ------------------------- *)

\* a boost::optional<uint64_t> is the empty set or a set of one value; a
\* json object is a function of its keys

\* nlohmann::json::emplace: inserts the key unless the object has it
emplace(object, key, value) ==
  IF key \in DOMAIN object THEN object ELSE object @@ (key :> value)

\* to_json that adds the history only when both fields are set
to_json_both(request) ==
  LET body == [channel |-> request.channel, subscription_id |-> request.channel]
  IN [action |-> "rtm/subscribe", id |-> request.id,
      body |-> IF request.age # {} /\ request.count # {}
               THEN emplace(body, "history",
                            [age |-> CHOOSE v \in request.age : TRUE,
                             count |-> CHOOSE v \in request.count : TRUE])
               ELSE body]

to_json(request) ==
  LET document == [action |-> "rtm/subscribe",
                   body |-> [channel |-> "<not_set>",
                             subscription_id |-> "<not_set>"],
                   id |-> 2]
      body == [document.body EXCEPT !.channel = request.channel,
                                    !.subscription_id = request.channel]
      h0 == << >>
      h1 == IF request.age # {}
            THEN emplace(h0, "age", CHOOSE v \in request.age : TRUE) ELSE h0
      history == IF request.count # {}
                 THEN emplace(h1, "count", CHOOSE v \in request.count : TRUE)
                 ELSE h1
  IN [document EXCEPT
        !.id = request.id,
        !.body = IF request.age # {} \/ request.count # {}
                 THEN emplace(body, "history", history) ELSE body]

(* ------------------------- subscriptions_map -------------------------- *)

\* the three containers of a default-constructed subscriptions_map; an
\* iterator into _sub_infos is modelled by the record it points at
EmptyMap == [ _sub_infos |-> << >>, _channels_map |-> << >>, _subs_map |-> << >> ]

MapPut(f, k, v) == [x \in DOMAIN f \cup {k} |-> IF x = k THEN v ELSE f[x]]

MapErase(f, k) == [x \in DOMAIN f \ {k} |-> f[x]]

SeqRemove(q, v) == SelectSeq(q, LAMBDA e : e # v)

\* the CHECK_EQ that fails in add, "" when both pass
add_CHECK(m, channel, sub) ==
  IF channel \in DOMAIN m._channels_map THEN "add: already exists for channel"
  ELSE IF sub \in DOMAIN m._subs_map THEN "add: already exists for sub"
  ELSE ""

add(m, channel, sub, callbacks) ==
  LET it == [channel |-> channel, sub |-> sub, callbacks |-> callbacks] IN
  [ _sub_infos |-> Append(m._sub_infos, it),
    _channels_map |-> MapPut(m._channels_map, channel, it),
    _subs_map |-> MapPut(m._subs_map, sub, it) ]

\* boost::none is modelled by the empty set, a found record by its singleton
find_by_channel(m, channel) ==
  IF channel \in DOMAIN m._channels_map THEN {m._channels_map[channel]} ELSE {}

find_by_sub(m, sub) ==
  IF sub \in DOMAIN m._subs_map THEN {m._subs_map[sub]} ELSE {}

\* the bool delete_by_channel returns
delete_by_channel_found(m, channel) == channel \in DOMAIN m._channels_map

\* delete_by_channel that leaves the entry of the handle in _subs_map
delete_by_channel_keeping_sub(m, channel) ==
  IF channel \notin DOMAIN m._channels_map THEN m
  ELSE LET sub_info_it == m._channels_map[channel] IN
       [ _sub_infos |-> SeqRemove(m._sub_infos, sub_info_it),
         _channels_map |-> MapErase(m._channels_map, sub_info_it.channel),
         _subs_map |-> m._subs_map ]

delete_by_channel(m, channel) ==
  IF channel \notin DOMAIN m._channels_map THEN m
  ELSE LET sub_info_it == m._channels_map[channel] IN
       [ _sub_infos |-> SeqRemove(m._sub_infos, sub_info_it),
         _channels_map |-> MapErase(m._channels_map, sub_info_it.channel),
         _subs_map |-> MapErase(m._subs_map, sub_info_it.sub) ]

clear(m) == EmptyMap

(* --------------------------- write serializer ------------------------- *)

\* operator()(write_request) / operator()(ping_request): hand the request
\* to the transport (async_write / async_ping).  On a socket stop() has
\* closed the operation cannot be sent and completes with an error.
async_start(s, request) ==
  [s EXCEPT !.io_op = IF s.socket = "open" THEN "pending" ELSE "closed",
            !.wire = Append(@, request.id)]

\* drain_requests without the test of _request_in_flight
drain_requests_unguarded(s) ==
  IF s._pending_requests = << >> THEN s
  ELSE async_start([s EXCEPT !._request_in_flight = TRUE],
                   Head(s._pending_requests))

drain_requests(s) ==
  IF s._pending_requests = << >> \/ s._request_in_flight THEN s
  ELSE async_start([s EXCEPT !._request_in_flight = TRUE],
                   Head(s._pending_requests))

\* an entry of _pending_requests; at_stop only records, for the properties,
\* that the entry was in the queue when stop() was called
io_request(kind, id) == [kind |-> kind, id |-> id, at_stop |-> FALSE]

write(s, id) ==
  drain_requests([s EXCEPT
    !._pending_requests = Append(@, io_request("write", id)),
    !.enqueued = Append(@, id)])

ping(s, id) ==
  drain_requests([s EXCEPT
    !._pending_requests = Append(@, io_request("ping", id)),
    !.enqueued = Append(@, id)])

(* ------------------------ per-request sinks --------------------------- *)

\* a sink is invoked: the per-request sink of request `of` ("request"), the
\* data sink of subscription `of` ("subscription") or the application's
\* connection-level error sink ("error_callbacks")
Call_dropping_record(s, sink, of, what) ==
  [s EXCEPT !.calls = Append(@, [sink |-> sink, of |-> of, what |-> what]),
            !._channel_subscriptions =
                IF what = "SUBSCRIPTION_ERROR" THEN EmptyMap ELSE @]

Call(s, sink, of, what) ==
  [s EXCEPT !.calls = Append(@, [sink |-> sink, of |-> of, what |-> what])]

\* client_error passed to on_error for a request of this type
ErrorOf(type) ==
  CASE type = PUBLISH -> "PUBLISH_ERROR"
    [] type = SUBSCRIBE -> "SUBSCRIBE_ERROR"
    [] type = UNSUBSCRIBE -> "UNSUBSCRIBE_ERROR"

\* handle_write that erases the record of the request on every completion
handle_write_erasing(s, id, ec) ==
  IF id \notin DOMAIN s._sent_request_infos
  THEN Fatal(s, "handle_write: iterator of an erased record")
  ELSE [s EXCEPT !._sent_request_infos = MapErase(@, id)]

\* the completion handle_write(it) returns, called with the transport's ec.
\* `it` is the iterator to the record of request id.
handle_write_keeping(s, id, ec) ==
  IF id \notin DOMAIN s._sent_request_infos
  THEN Fatal(s, "handle_write: iterator of an erased record")
  ELSE
  LET request_info == s._sent_request_infos[id] IN
  IF ec # EcOk /\ request_info.callbacks # "nullptr"
  THEN Call(s, "request", id, ErrorOf(request_info.type))
  ELSE s

handle_write(s, id, ec) ==
  IF id \notin DOMAIN s._sent_request_infos
  THEN Fatal(s, "handle_write: iterator of an erased record")
  ELSE
  LET request_info == s._sent_request_infos[id] IN
  IF ec # EcOk
  THEN LET s1 == IF request_info.callbacks # "nullptr"
                 THEN Call(s, "request", id, ErrorOf(request_info.type))
                 ELSE s
       IN [s1 EXCEPT !._sent_request_infos = MapErase(@, id)]
  ELSE s

(* --------------------- secure_client: public calls -------------------- *)

sent_request_info(type, channel, callbacks) ==
  [type |-> type, channel |-> channel, callbacks |-> callbacks]

\* publish without the test for PENDING_STOPPED
publish_unguarded(s, channel, callbacks) ==
  IF s._client_state # RUNNING THEN Fatal(s, "publish: client is not running")
  ELSE
  LET id == new_request_id(s)
      s1 == [Bump(s) EXCEPT !._sent_request_infos =
               MapPut(@, id, sent_request_info(PUBLISH, channel, callbacks))]
  IN write(s1, id)

publish(s, channel, callbacks) ==
  IF s._client_state = PENDING_STOPPED THEN s
  ELSE IF s._client_state # RUNNING THEN Fatal(s, "publish: client is not running")
  ELSE
  LET id == new_request_id(s)
      s1 == [Bump(s) EXCEPT !._sent_request_infos =
               MapPut(@, id, sent_request_info(PUBLISH, channel, callbacks))]
  IN write(s1, id)

\* subscribe that enqueues the request before it inserts the record
subscribe_enqueue_first(s, channel, sub, callbacks) ==
  IF s._client_state = PENDING_STOPPED THEN s
  ELSE IF s._client_state # RUNNING THEN Fatal(s, "subscribe: client is not running")
  ELSE
  LET id == new_request_id(s)
      s1 == write([Bump(s) EXCEPT !._sent_request_infos =
                     MapPut(@, id, sent_request_info(SUBSCRIBE, channel, callbacks))],
                  id)
      failed == add_CHECK(s1._channel_subscriptions, channel, sub)
  IN IF failed # "" THEN Fatal(s1, failed)
     ELSE [s1 EXCEPT !._channel_subscriptions = add(@, channel, sub, sub)]

subscribe(s, channel, sub, callbacks) ==
  IF s._client_state = PENDING_STOPPED THEN s
  ELSE IF s._client_state # RUNNING THEN Fatal(s, "subscribe: client is not running")
  ELSE
  LET id == new_request_id(s)
      s1 == Bump(s)
      failed == add_CHECK(s1._channel_subscriptions, channel, sub)
  IN IF failed # "" THEN Fatal(s1, failed)
     ELSE
     LET s2 == [s1 EXCEPT
                  !._channel_subscriptions = add(@, channel, sub, sub),
                  !._sent_request_infos =
                     MapPut(@, id, sent_request_info(SUBSCRIBE, channel, callbacks))]
     IN write(s2, id)

unsubscribe(s, sub_to_delete, callbacks) ==
  IF s._client_state = PENDING_STOPPED THEN s
  ELSE IF s._client_state # RUNNING THEN Fatal(s, "unsubscribe: client is not running")
  ELSE
  LET found == find_by_sub(s._channel_subscriptions, sub_to_delete) IN
  IF found = {} THEN Fatal(s, "unsubscribe: didn't find subscription")
  ELSE
  LET id == new_request_id(s)
      channel == (CHOOSE d \in found : TRUE).channel
      s1 == [Bump(s) EXCEPT !._sent_request_infos =
               MapPut(@, id, sent_request_info(UNSUBSCRIBE, channel, callbacks))]
  IN write(s1, id)

(* ------------------------ ping timer, read loop ----------------------- *)

\* expires_from_now cancels a wait that is still outstanding (its handler is
\* queued with operation_aborted), async_wait starts the new one
arm_ping_timer(s) ==
  [s EXCEPT !.timer_wait = TRUE,
            !.timer_aborted = IF s.timer_wait THEN @ + 1 ELSE @]

\* _ws.async_read: on an open socket the read waits for the server, on a
\* closed one it completes with an error
ask_for_read(s) ==
  [s EXCEPT !.read_op = IF s.socket = "open" THEN "pending" ELSE "closed"]

(* ------------------------ secure_client: lifecycle -------------------- *)

\* how far start() gets: the substep that fails, or "ok"
StartOutcomes == {"ok", "resolve", "connect", "handshake", "upgrade"}

\* what start() returns: ASIO_ERROR when a substep fails, no error otherwise
start_result(outcome) == IF outcome = "ok" THEN "" ELSE "ASIO_ERROR"

\* start() that arms the ping timer before the substeps that may fail
start_arming_first(s, outcome) ==
  IF s._client_state # STOPPED THEN Fatal(s, "start: client is not stopped")
  ELSE IF outcome # "ok" THEN arm_ping_timer(s)
  ELSE ask_for_read([arm_ping_timer(s) EXCEPT
                       !.socket = "open", !.control_callback = TRUE,
                       !.srv_requests = {}, !.srv_subs = {}, !.srv_pings = {},
                       !._client_state = RUNNING])

start(s, outcome) ==
  IF s._client_state # STOPPED THEN Fatal(s, "start: client is not stopped")
  ELSE IF outcome \in {"resolve", "connect"} THEN s
  ELSE IF outcome \in {"handshake", "upgrade"}
  THEN \* the TCP connection stays, the websocket stream is not open
       [s EXCEPT !.socket = "connected"]
  ELSE
  LET s1 == [s EXCEPT !.socket = "open", !.control_callback = TRUE,
                      !.srv_requests = {}, !.srv_subs = {}, !.srv_pings = {}]
      s2 == arm_ping_timer(s1)
      s3 == [s2 EXCEPT !._client_state = RUNNING]
  IN ask_for_read(s3)

\* closing the socket completes what is outstanding on it with
\* operation_aborted
close_socket(s) ==
  [s EXCEPT !.socket = "closed",
            !.read_op = IF @ = "pending" THEN "aborted" ELSE @,
            !.io_op = IF @ = "pending" THEN "aborted" ELSE @]

\* ec_close is what close(ec) of the socket reports; deadline_timer::cancel
\* reports no error
stop(s, ec_close) ==
  IF s._client_state # RUNNING THEN Fatal(s, "stop: client is not running")
  ELSE
  LET s1 == [s EXCEPT !._client_state = PENDING_STOPPED,
                      !.timer_wait = FALSE,
                      !.timer_aborted = IF s.timer_wait THEN @ + 1 ELSE @]
      s2 == close_socket(s1)
  IN IF ec_close # EcOk THEN s2
     ELSE [s2 EXCEPT !.control_callback = FALSE]

(* ------------------------ thread_checking_client ---------------------- *)

\* _io.post(lambda): the call waits in the queue of the io_service
post(s, call) == [s EXCEPT !.posted = Append(@, call)]

\* thread_checking_client::publish that calls the client on any thread
thread_checking_publish_direct(s, channel, callbacks) ==
  publish(s, channel, callbacks)

thread_checking_publish(s, channel, callbacks) ==
  IF s.this_thread # _io_thread_id
  THEN post(s, [op |-> PUBLISH, channel |-> channel, sub |-> "",
                callbacks |-> callbacks])
  ELSE publish(s, channel, callbacks)

thread_checking_subscribe(s, channel, sub, callbacks) ==
  IF s.this_thread # _io_thread_id
  THEN post(s, [op |-> SUBSCRIBE, channel |-> channel, sub |-> sub,
                callbacks |-> callbacks])
  ELSE subscribe(s, channel, sub, callbacks)

thread_checking_unsubscribe(s, sub, callbacks) ==
  IF s.this_thread # _io_thread_id
  THEN post(s, [op |-> UNSUBSCRIBE, channel |-> "", sub |-> sub,
                callbacks |-> callbacks])
  ELSE unsubscribe(s, sub, callbacks)

\* the body of a posted lambda, run by the loop
run_posted(s, call) ==
  CASE call.op = PUBLISH -> publish(s, call.channel, call.callbacks)
    [] call.op = SUBSCRIBE -> subscribe(s, call.channel, call.sub, call.callbacks)
    [] call.op = UNSUBSCRIBE -> unsubscribe(s, call.sub, call.callbacks)

thread_checking_start(s, outcome) ==
  IF s.this_thread # _io_thread_id
  THEN Fatal(s, "thread_checking_client::start: invocation from another thread")
  ELSE start(s, outcome)

thread_checking_stop(s, ec_close) ==
  IF s.this_thread # _io_thread_id
  THEN Fatal(s, "thread_checking_client::stop: invocation from another thread")
  ELSE stop(s, ec_close)

(* --------------------------- resilient_client ------------------------- *)

\* the fields of a secure_client right after its constructor, with the
\* transport objects it owns
Constructed ==
  [ _client_state |-> STOPPED, _channel_subscriptions |-> EmptyMap,
    _ping_times |-> {}, _sent_request_infos |-> << >>,
    _pending_requests |-> << >>, _request_in_flight |-> FALSE,
    socket |-> "closed", read_op |-> "none", io_op |-> "none",
    timer_wait |-> FALSE, timer_ready |-> 0, timer_aborted |-> 0,
    control_callback |-> FALSE ]

\* handlers of the client s that are still outstanding or queued; its
\* destructor closes the socket and the timer, so each of them is still
\* called, with `this` dangling
Outstanding(s) ==
  (IF s.read_op # "none" THEN {"read"} ELSE {})
    \cup (IF s.io_op # "none" THEN {"io"} ELSE {})
    \cup (IF s.timer_ready > 0 THEN {"timer_ready"} ELSE {})
    \cup (IF s.timer_wait \/ s.timer_aborted > 0 THEN {"timer_aborted"} ELSE {})

\* _client = _factory(*this): a new secure_client that reports to the
\* resilient client; assigning the unique_ptr destroys the previous client
factory(s) ==
  [s EXCEPT
     !._client = "set",
     !.instance = @ + 1,
     !._common_error_callbacks = "resilient_client",
     !.zombies = IF s._client = "set" THEN @ \cup Outstanding(s) ELSE @,
     !._client_state = Constructed._client_state,
     !._channel_subscriptions = Constructed._channel_subscriptions,
     !._ping_times = Constructed._ping_times,
     !._sent_request_infos = Constructed._sent_request_infos,
     !._pending_requests = Constructed._pending_requests,
     !._request_in_flight = Constructed._request_in_flight,
     !.socket = Constructed.socket,
     !.read_op = Constructed.read_op,
     !.io_op = Constructed.io_op,
     !.timer_wait = Constructed.timer_wait,
     !.timer_ready = Constructed.timer_ready,
     !.timer_aborted = Constructed.timer_aborted,
     !.control_callback = Constructed.control_callback,
     !.enqueued = << >>, !.wire = << >>, !.completed = 0 ]

subscription_info(channel, sub, callbacks) ==
  [channel |-> channel, sub |-> sub, callbacks |-> callbacks]

resilient_publish(s, channel, callbacks) == publish(s, channel, callbacks)

resilient_subscribe(s, channel, sub, callbacks) ==
  subscribe([s EXCEPT !._subscriptions =
               Append(@, subscription_info(channel, sub, callbacks))],
            channel, sub, callbacks)

\* std::remove_if(first, last, pred) on the elements q: the elements pred
\* rejects are move-assigned to the front in their order; the length does
\* not change.  What stays behind the new logical end is either an element
\* pred accepts that was never overwritten, or an element that was moved
\* from: its std::string is valid but unspecified (`moved`: "cleared" or
\* "kept"), its pointers are copies.
remove_if(q, sub, moved) ==
  LET kept == SelectSeq(q, LAMBDA si : si.sub # sub)
      moved_from(si) == IF moved = "cleared" THEN [si EXCEPT !.channel = ""] ELSE si
  IN [i \in 1..Len(q) |->
        IF i <= Len(kept) THEN kept[i]
        ELSE IF q[i].sub = sub THEN q[i]
        ELSE moved_from(q[i])]

\* the value std::remove_if returns is discarded: nothing is erased
resilient_unsubscribe(s, sub, callbacks, moved) ==
  LET s1 == unsubscribe(s, sub, callbacks) IN
  IF ~Alive(s1) THEN s1
  ELSE [s1 EXCEPT !._subscriptions = remove_if(@, sub, moved)]

resilient_start(s, outcome) ==
  LET s1 == IF s._client = "null" THEN factory(s) ELSE s
  IN start([s1 EXCEPT !._started = TRUE], outcome)

resilient_stop(s, ec_close) == stop([s EXCEPT !._started = FALSE], ec_close)

\* the loop over _subscriptions in restart
RECURSIVE restore_subscriptions(_, _)
restore_subscriptions(s, subs) ==
  IF subs = << >> \/ ~Alive(s) THEN s
  ELSE LET sub == Head(subs)
           s1 == subscribe(s, sub.channel, sub.sub, sub.callbacks)
           s2 == IF Alive(s1)
                 THEN [s1 EXCEPT !.replayed =
                         Append(@, [channel |-> sub.channel, sub |-> sub.sub])]
                 ELSE s1
       IN restore_subscriptions(s2, Tail(subs))

\* restart that reports a failed start to the error sink twice
restart_reporting_twice(s, outcome) ==
  LET s1 == [factory(s) EXCEPT !.replayed = << >>] IN
  IF ~s1._started THEN s1
  ELSE LET s2 == start(s1, outcome) IN
       IF ~Alive(s2) THEN s2
       ELSE IF start_result(outcome) # ""
       THEN Call(Call(s2, "error_callbacks", 0, start_result(outcome)),
                 "error_callbacks", 0, start_result(outcome))
       ELSE restore_subscriptions(s2, s2._subscriptions)

\* outcome: how far start() of the fresh client gets
restart(s, outcome) ==
  LET s1 == [factory(s) EXCEPT !.replayed = << >>] IN
  IF ~s1._started THEN s1
  ELSE LET s2 == start(s1, outcome) IN
       IF ~Alive(s2) THEN s2
       ELSE IF start_result(outcome) # ""
       THEN Call(s2, "error_callbacks", 0, start_result(outcome))
       ELSE restore_subscriptions(s2, s2._subscriptions)

resilient_on_error(s, outcome) == restart(s, outcome)

\* _common_error_callbacks.on_error(ASIO_ERROR) of a secure client: the
\* sink is the application's, or the resilient client that owns the client
common_on_error(s, outcome) ==
  IF s._common_error_callbacks = "resilient_client"
  THEN resilient_on_error(s, outcome)
  ELSE Call(s, "error_callbacks", 0, "ASIO_ERROR")

(* ---------------------- secure_client: handlers ----------------------- *)

\* on_pong that drops a nonce it does not know
on_pong_ignoring(s, value) == [s EXCEPT !._ping_times = @ \ {value}]

on_pong(s, value) ==
  IF value \notin s._ping_times THEN Fatal(s, "on_pong: unexpected pong value")
  ELSE [s EXCEPT !._ping_times = @ \ {value}]

\* the completion passed to ping() by the timer handler
ping_done_reporting(s, ec_ping, outcome) ==
  IF ec_ping # EcOk
  THEN IF ec_ping = EcAborted THEN s ELSE common_on_error(s, outcome)
  ELSE arm_ping_timer(s)

ping_done(s, ec_ping, outcome) ==
  IF ec_ping # EcOk
  THEN IF ec_ping = EcAborted THEN s
       ELSE IF s._client_state = RUNNING
       THEN common_on_error(s, outcome)
       ELSE s
  ELSE arm_ping_timer(s)

\* a timer handler that sets STOPPED when the wait did not succeed
timer_handler_stopping(s, ec_timer, outcome) ==
  IF ec_timer # EcOk THEN [s EXCEPT !._client_state = STOPPED]
  ELSE LET id == new_request_id(s) IN
       ping([Bump(s) EXCEPT !._ping_times = @ \cup {id}], id)

\* the handler arm_ping_timer passes to async_wait
timer_handler(s, ec_timer, outcome) ==
  IF ec_timer # EcOk
  THEN IF ec_timer = EcAborted THEN s
       ELSE IF s._client_state = RUNNING THEN common_on_error(s, outcome)
       ELSE s
  ELSE LET id == new_request_id(s) IN
       ping([Bump(s) EXCEPT !._ping_times = @ \cup {id}], id)

\* what a read of freed memory may yield: the bytes that were there, or not
UBOutcomes == {"as_if_valid", "crash"}

Garbage == "<freed>"

\* a terminal branch that erases the record without calling the sink
process_request_confirmation_silent(s, pdu, what) ==
  IF pdu.id \notin DOMAIN s._sent_request_infos
  THEN Fatal(s, "unexpected confirmation")
  ELSE [s EXCEPT !._sent_request_infos = MapErase(@, pdu.id)]

\* process_request_confirmation, the per-request callback and
\* _sent_request_infos.erase(it) of a terminal branch; what: the callback
process_request_confirmation(s, pdu, what) ==
  IF pdu.id \notin DOMAIN s._sent_request_infos
  THEN Fatal(s, "unexpected confirmation")
  ELSE
  LET it == s._sent_request_infos[pdu.id]
      s2 == IF it.callbacks # "nullptr" THEN Call(s, "request", pdu.id, what) ELSE s
  IN [s2 EXCEPT !._sent_request_infos = MapErase(@, pdu.id)]

\* CHECK(_channel_subscriptions.delete_by_channel(it->second.channel)) after
\* erase(it): the channel is read through the erased iterator
CHECK_delete_by_channel(s, channel, ub) ==
  LET read == IF ub = "as_if_valid" THEN channel ELSE Garbage IN
  IF ~delete_by_channel_found(s._channel_subscriptions, read)
  THEN Fatal(s, "failed to delete")
  ELSE [s EXCEPT !._channel_subscriptions = delete_by_channel(@, read)]

\* find_by_channel of body.subscription_id and its CHECK
process_subscription_pdu_CHECK(s, pdu) ==
  IF find_by_channel(s._channel_subscriptions, pdu.subscription_id) = {}
  THEN "no subscription for pdu" ELSE ""

\* the loop over body.messages that calls on_data in the reverse order
RECURSIVE on_data_loop_reversed(_, _, _)
on_data_loop_reversed(s, sub_info, messages) ==
  IF messages = << >> THEN s
  ELSE Call(on_data_loop_reversed(s, sub_info, Tail(messages)),
            "subscription", sub_info.sub, Head(messages))

\* for (const auto &m : messages) sub_info.callbacks.on_data(sub_info.sub, m)
RECURSIVE on_data_loop(_, _, _)
on_data_loop(s, sub_info, messages) ==
  IF messages = << >> THEN s
  ELSE on_data_loop(Call(s, "subscription", sub_info.sub, Head(messages)),
                    sub_info, Tail(messages))

process_input(s, pdu, ub) ==
  LET action == pdu.action
      channel == IF pdu.id \in DOMAIN s._sent_request_infos
                 THEN s._sent_request_infos[pdu.id].channel ELSE Garbage
  IN
  IF action \in {"rtm/subscription/data", "rtm/subscription/error"}
  THEN IF process_subscription_pdu_CHECK(s, pdu) # ""
       THEN Fatal(s, process_subscription_pdu_CHECK(s, pdu))
       ELSE LET sub_info == CHOOSE d \in
                  find_by_channel(s._channel_subscriptions, pdu.subscription_id) : TRUE
            IN IF action = "rtm/subscription/data"
               THEN on_data_loop(s, sub_info, pdu.messages)
               ELSE Call(s, "subscription", sub_info.sub, "SUBSCRIPTION_ERROR")
  ELSE IF action = "rtm/publish/ok"
  THEN process_request_confirmation(s, pdu, "on_ok")
  ELSE IF action = "rtm/publish/error"
  THEN process_request_confirmation(s, pdu, "PUBLISH_ERROR")
  ELSE IF action = "rtm/subscribe/ok"
  THEN process_request_confirmation(s, pdu, "on_ok")
  ELSE IF action = "rtm/subscribe/error"
  THEN LET s1 == process_request_confirmation(s, pdu, "SUBSCRIBE_ERROR") IN
       IF ~Alive(s1) THEN s1 ELSE CHECK_delete_by_channel(s1, channel, ub)
  ELSE IF action = "rtm/unsubscribe/ok"
  THEN LET s1 == process_request_confirmation(s, pdu, "on_ok") IN
       IF ~Alive(s1) THEN s1 ELSE CHECK_delete_by_channel(s1, channel, ub)
  ELSE IF action = "rtm/unsubscribe/error"
  THEN LET s1 == process_request_confirmation(s, pdu, "UNSUBSCRIBE_ERROR") IN
       IF ~Alive(s1) THEN s1 ELSE CHECK_delete_by_channel(s1, channel, ub)
  ELSE IF action = "/error" THEN Fatal(s, "got unexpected error")
  ELSE Fatal(s, "unsupported action")

\* a frame cbor_to_json / json::parse rejects
Undecodable == [action |-> "<undecodable>"]

\* the handler ask_for_read passes to async_read
read_handler(s, ec, msg, ub, outcome) ==
  LET s0 == [s EXCEPT !.read_op = "none"] IN
  IF ec # EcOk
  THEN IF ec = EcAborted
       THEN IF s0._client_state # PENDING_STOPPED
            THEN Fatal(s0, "async_read: cancelled while not PENDING_STOPPED")
            ELSE [s0 EXCEPT !._client_state = STOPPED,
                            !._channel_subscriptions = clear(@)]
       ELSE IF s0._client_state = RUNNING
       THEN common_on_error(s0, outcome)
       ELSE s0
  ELSE IF msg = Undecodable THEN s0
  ELSE LET s1 == process_input(s0, msg, ub) IN
       IF ~Alive(s1) THEN s1 ELSE ask_for_read(s1)

\* the completion of the transport operation of the head of the queue
on_request_done(s, ec, ub, outcome) ==
  LET request == Head(s._pending_requests)
      s0 == [s EXCEPT !.io_op = "none", !.completed = @ + 1]
      s1 == IF request.kind = "write" THEN handle_write(s0, request.id, ec)
            ELSE ping_done(s0, ec, outcome)
  IN IF ~Alive(s1) THEN s1
     ELSE IF s1.instance # s.instance
     THEN \* done_cb replaced and destroyed this client: pop() and
          \* drain_requests() run on the destroyed object
          IF ub = "crash" THEN Fatal(s1, "on_request_done: client destroyed")
          ELSE s1
     ELSE drain_requests([s1 EXCEPT !._pending_requests = Tail(@),
                                    !._request_in_flight = FALSE])

\* on_request_done for a failed write whose sink, inside on_error, publishes
\* on the channel: publish emplaces into _sent_request_infos and calls
\* write() and drain_requests() while the completed request is still at the
\* head of the queue.  The emplace may rehash the table, which invalidates
\* the iterator handle_write erases with afterwards (ub).
on_request_done_reentered(s, ec, channel, ub) ==
  LET request == Head(s._pending_requests)
      s0 == [s EXCEPT !.io_op = "none", !.completed = @ + 1]
      request_info == s0._sent_request_infos[request.id]
      s1 == Call(s0, "request", request.id, ErrorOf(request_info.type))
      s2 == publish(s1, channel, "nullptr")
  IN IF ~Alive(s2) THEN s2
     ELSE IF ub = "crash"
     THEN Fatal(s2, "handle_write: iterator invalidated by emplace")
     ELSE drain_requests(
            [s2 EXCEPT !._sent_request_infos = MapErase(@, request.id),
                       !._pending_requests = Tail(@),
                       !._request_in_flight = FALSE])

(* ------------------------------ the server ---------------------------- *)

\* the terminal actions the server answers a request of this type with
TerminalActions(type) ==
  CASE type = PUBLISH -> {"rtm/publish/ok", "rtm/publish/error"}
    [] type = SUBSCRIBE -> {"rtm/subscribe/ok", "rtm/subscribe/error"}
    [] type = UNSUBSCRIBE -> {"rtm/unsubscribe/ok", "rtm/unsubscribe/error"}

\* what the server may send next: one terminal for a request it has received
\* and not answered, and data or an error for a subscription it holds
ServerPdus(s) ==
  UNION { { [action |-> a, id |-> r.id, subscription_id |-> "", messages |-> << >>] :
              a \in TerminalActions(r.type) } : r \in s.srv_requests }
    \cup { [action |-> "rtm/subscription/data", id |-> 0, subscription_id |-> c,
            messages |-> ms] : c \in s.srv_subs, ms \in MessageArrays }
    \cup { [action |-> "rtm/subscription/error", id |-> 0, subscription_id |-> c,
            messages |-> << >>] : c \in s.srv_subs }

\* the server's state once it has sent pdu
server_sent(s, pdu) ==
  IF pdu.id = 0 THEN s
  ELSE LET r == CHOOSE r \in s.srv_requests : r.id = pdu.id IN
       [s EXCEPT !.srv_requests = @ \ {r},
                 !.srv_subs = IF pdu.action = "rtm/subscribe/ok" THEN @ \cup {r.channel}
                              ELSE IF pdu.action = "rtm/unsubscribe/ok" THEN @ \ {r.channel}
                              ELSE @]

\* the server's state once the request at the head of the queue is written
server_received(s) ==
  LET request == Head(s._pending_requests) IN
  IF request.kind = "ping" THEN [s EXCEPT !.srv_pings = @ \cup {request.id}]
  ELSE IF request.id \notin DOMAIN s._sent_request_infos THEN s
  ELSE LET info == s._sent_request_infos[request.id] IN
       [s EXCEPT !.srv_requests =
          @ \cup {[id |-> request.id, type |-> info.type, channel |-> info.channel]}]

\* the terminal branches that read through the erased iterator
ReadsErased(pdu) ==
  pdu.action \in {"rtm/subscribe/error", "rtm/unsubscribe/ok", "rtm/unsubscribe/error"}

\* the results a start() inside this handler's on_error can have
Outcomes == IF _common_error_callbacks = "resilient_client" THEN StartOutcomes ELSE {"ok"}

\* a handler that reports to the resilient client makes it construct a client
MayReport == _common_error_callbacks = "resilient_client" => instance < MaxClients

(* ------------------------------- actions ------------------------------ *)

\* the state a handler starts in: no sink is called yet
Begin == [State EXCEPT !.calls = << >>, !.this_thread = _io_thread_id]

\* the start of a call the application makes on the given thread
BeginOn(thread) == [Begin EXCEPT !.this_thread = thread]

\* s, with the requests that are queued or in flight marked: stop() returned
QueuedAtStop(s) ==
  [s EXCEPT !._pending_requests =
     [i \in 1..Len(@) |-> [@[i] EXCEPT !.at_stop = TRUE]]]

InitCommon ==
  /\ _client_state = Constructed._client_state
  /\ _channel_subscriptions = Constructed._channel_subscriptions
  /\ _ping_times = Constructed._ping_times
  /\ _sent_request_infos = Constructed._sent_request_infos
  /\ _pending_requests = Constructed._pending_requests
  /\ _request_in_flight = Constructed._request_in_flight
  /\ request_id = 1
  /\ _subscriptions = << >>
  /\ _started = FALSE
  /\ socket = Constructed.socket
  /\ read_op = Constructed.read_op
  /\ io_op = Constructed.io_op
  /\ timer_wait = Constructed.timer_wait
  /\ timer_ready = Constructed.timer_ready
  /\ timer_aborted = Constructed.timer_aborted
  /\ control_callback = Constructed.control_callback
  /\ zombies = {}
  /\ srv_requests = {} /\ srv_subs = {} /\ srv_pings = {}
  /\ enqueued = << >> /\ wire = << >> /\ completed = 0
  /\ replayed = << >>
  /\ calls = << >>
  /\ posted = << >> /\ this_thread = _io_thread_id
  /\ built = << >>
  /\ fatal = ""

\* one secure_client, constructed with the application's error sink
Init ==
  /\ InitCommon
  /\ _client = "null"
  /\ instance = 1
  /\ _common_error_callbacks = "error_callbacks"

\* the application calls start(), stop(), publish(), subscribe() and
\* unsubscribe() of the secure client in the states the contract allows
Start ==
  /\ fatal = "" /\ _client_state = STOPPED
  /\ timer_ready + timer_aborted < MaxQueuedTimers
  /\ \E outcome \in StartOutcomes : Apply(start(Begin, outcome))

Stop ==
  /\ fatal = "" /\ _client_state = RUNNING
  /\ \E ec_close \in {EcOk, EcError} : Apply(QueuedAtStop(stop(Begin, ec_close)))

Publish(channels, max) ==
  /\ fatal = "" /\ _client_state \in {RUNNING, PENDING_STOPPED}
  /\ request_id <= max
  /\ \E channel \in channels, callbacks \in RequestCallbacks :
       Apply(publish(Begin, channel, callbacks))

Subscribe(sinks, max) ==
  /\ fatal = "" /\ _client_state \in {RUNNING, PENDING_STOPPED}
  /\ request_id <= max
  /\ \E channel \in Channels, sub \in Handles, callbacks \in sinks :
       Apply(subscribe(Begin, channel, sub, callbacks))

Unsubscribe(sinks, max) ==
  /\ fatal = "" /\ _client_state \in {RUNNING, PENDING_STOPPED}
  /\ request_id <= max
  /\ \E sub \in Handles, callbacks \in sinks :
       Apply(unsubscribe(Begin, sub, callbacks))

\* the deadline of the ping timer passes: its handler is queued with success
TimerExpires ==
  /\ fatal = "" /\ timer_wait
  /\ Apply([Begin EXCEPT !.timer_wait = FALSE, !.timer_ready = @ + 1])

TimerFired(max) ==
  /\ fatal = "" /\ timer_ready > 0 /\ request_id <= max
  /\ Apply(timer_handler([Begin EXCEPT !.timer_ready = @ - 1], EcOk, "ok"))

TimerCancelled ==
  /\ fatal = "" /\ timer_aborted > 0
  /\ Apply(timer_handler([Begin EXCEPT !.timer_aborted = @ - 1], EcAborted, "ok"))

\* the transport operation of the request in flight completes: with success,
RequestDoneOk ==
  /\ fatal = "" /\ io_op = "pending"
  /\ Apply(on_request_done(server_received(Begin), EcOk, "as_if_valid", "ok"))

\* with an error that is not a cancellation,
RequestDoneError ==
  /\ fatal = "" /\ io_op \in {"pending", "closed"}
  /\ MayReport
  /\ \E ub \in UBOutcomes, outcome \in Outcomes :
       Apply(on_request_done(Begin, EcError, ub, outcome))

\* with operation_aborted
RequestDoneAborted ==
  /\ fatal = "" /\ io_op \in {"aborted", "closed"}
  /\ Apply(on_request_done(Begin, EcAborted, "as_if_valid", "ok"))

\* the read completes with the PDU pdu of the server
ReceivePdu(pdu) ==
  /\ fatal = "" /\ read_op = "pending"
  /\ pdu \in ServerPdus(State)
  /\ \E ub \in (IF ReadsErased(pdu) THEN UBOutcomes ELSE {"as_if_valid"}) :
       Apply(read_handler(server_sent(Begin, pdu), EcOk, pdu, ub, "ok"))

Receive == \E pdu \in ServerPdus(State) : ReceivePdu(pdu)

\* the read completes with a frame that does not decode
ReceiveUndecodable ==
  /\ fatal = "" /\ read_op = "pending"
  /\ Apply(read_handler(Begin, EcOk, Undecodable, "as_if_valid", "ok"))

\* a pong of the server reaches the control callback
Pong ==
  /\ fatal = "" /\ read_op = "pending" /\ control_callback
  /\ \E value \in srv_pings :
       Apply(on_pong([Begin EXCEPT !.srv_pings = @ \ {value}], value))

\* the read completes with an error that is not a cancellation
ReadError ==
  /\ fatal = "" /\ read_op \in {"pending", "closed"}
  /\ MayReport
  /\ \E outcome \in Outcomes :
       Apply(read_handler(Begin, EcError, Undecodable, "as_if_valid", outcome))

\* the read completes with operation_aborted
ReadCancelled ==
  /\ fatal = "" /\ read_op \in {"aborted", "closed"}
  /\ Apply(read_handler(Begin, EcAborted, Undecodable, "as_if_valid", "ok"))

(* ---------------------------- specifications -------------------------- *)

\* Spec: one secure client that publishes on one channel; lifecycle, write
\* serializer, ping scheduler, read loop and transport failures
Next ==
  \/ Start \/ Stop
  \/ Publish({"a"}, MaxRequestId)
  \/ TimerExpires \/ TimerFired(MaxRequestId) \/ TimerCancelled
  \/ RequestDoneOk \/ RequestDoneError \/ RequestDoneAborted
  \/ Receive \/ ReceiveUndecodable \/ Pong
  \/ ReadError \/ ReadCancelled

Spec == Init /\ [][Next]_vars

\* SubSpec: one secure client that subscribes and unsubscribes on two
\* channels, in runs short enough for the ping timer not to expire
SubNext ==
  \/ Start \/ Stop
  \/ Subscribe({"cbs"}, MaxSubRequestId) \/ Unsubscribe({"cbs"}, MaxSubRequestId)
  \/ TimerCancelled
  \/ RequestDoneOk \/ RequestDoneError \/ RequestDoneAborted
  \/ Receive \/ ReceiveUndecodable
  \/ ReadError \/ ReadCancelled

SubSpec == Init /\ [][SubNext]_vars

\* RequestSpec: one secure client that issues the three kinds of request:
\* publish on one channel, subscribe and unsubscribe on two
RequestNext ==
  \/ Start \/ Stop
  \/ Publish({"a"}, MaxRequestId)
  \/ Subscribe({"cbs"}, MaxRequestId) \/ Unsubscribe({"cbs"}, MaxRequestId)
  \/ TimerCancelled
  \/ RequestDoneOk \/ RequestDoneError \/ RequestDoneAborted
  \/ Receive \/ ReceiveUndecodable
  \/ ReadError \/ ReadCancelled

RequestSpec == Init /\ [][RequestNext]_vars

\* PairSpec: the runs of one secure client in which every request is a
\* subscribe on a channel that has no record or the unsubscribe of a handle
\* that has one, every write succeeds and the server answers every request
\* with its ok terminal, in any order
StartConnects ==
  /\ fatal = "" /\ _client_state = STOPPED
  /\ Apply(start(Begin, "ok"))

SubscribeFresh ==
  /\ fatal = "" /\ _client_state = RUNNING
  /\ request_id <= MaxSubRequestId
  /\ \E channel \in Channels, sub \in Handles :
       /\ find_by_channel(_channel_subscriptions, channel) = {}
       /\ find_by_sub(_channel_subscriptions, sub) = {}
       /\ Apply(subscribe(Begin, channel, sub, "cbs"))

UnsubscribeHeld ==
  /\ fatal = "" /\ _client_state = RUNNING
  /\ request_id <= MaxSubRequestId
  /\ \E sub \in Handles :
       /\ \E sub_info \in find_by_sub(_channel_subscriptions, sub) :
            \A id \in DOMAIN _sent_request_infos :
              _sent_request_infos[id].type = UNSUBSCRIBE
                => _sent_request_infos[id].channel # sub_info.channel
       /\ Apply(unsubscribe(Begin, sub, "cbs"))

ReceiveOk ==
  \E pdu \in ServerPdus(State) :
    /\ pdu.action \in {"rtm/subscribe/ok", "rtm/unsubscribe/ok"}
    /\ ReceivePdu(pdu)

PairNext ==
  \/ StartConnects \/ SubscribeFresh \/ UnsubscribeHeld
  \/ RequestDoneOk \/ ReceiveOk

PairSpec == Init /\ [][PairNext]_vars

\* RSpec: one resilient_client; the application starts and stops it and
\* subscribes and unsubscribes through it, the clients its factory makes
\* report their transport errors to it
RInit ==
  /\ InitCommon
  /\ _client = "null"
  /\ instance = 0
  /\ _common_error_callbacks = "resilient_client"

RStart ==
  /\ fatal = "" /\ _client_state = STOPPED
  /\ timer_ready + timer_aborted < MaxQueuedTimers
  /\ \E outcome \in StartOutcomes : Apply(resilient_start(Begin, outcome))

RStop ==
  /\ fatal = "" /\ _client = "set" /\ _client_state = RUNNING
  /\ Apply(QueuedAtStop(resilient_stop(Begin, EcOk)))

RSubscribe ==
  /\ fatal = "" /\ _client = "set" /\ _client_state \in {RUNNING, PENDING_STOPPED}
  /\ request_id <= MaxRequestId /\ Len(_subscriptions) < MaxSubscriptions
  /\ \E channel \in Channels, sub \in Handles :
       Apply(resilient_subscribe(Begin, channel, sub, "cbs"))

\* moved: what the build leaves in a std::string that was moved from
RUnsubscribeOf(sub) ==
  /\ fatal = "" /\ _client = "set" /\ _client_state \in {RUNNING, PENDING_STOPPED}
  /\ request_id <= MaxRequestId
  /\ \E moved \in {"cleared", "kept"} :
       Apply(resilient_unsubscribe(Begin, sub, "cbs", moved))

RUnsubscribe == \E sub \in Handles : RUnsubscribeOf(sub)

\* a handler of a destroyed client is called: the timer handler returns on
\* operation_aborted without touching the client, the others read its fields
ZombieHandler ==
  /\ fatal = ""
  /\ \E z \in zombies, ub \in UBOutcomes :
       LET s == [Begin EXCEPT !.zombies = @ \ {z}] IN
       Apply(IF z # "timer_aborted" /\ ub = "crash"
             THEN Fatal(s, "handler of a destroyed client")
             ELSE s)

RNext ==
  \/ RStart \/ RStop \/ RSubscribe \/ RUnsubscribe
  \/ TimerCancelled
  \/ RequestDoneOk \/ RequestDoneError \/ RequestDoneAborted
  \/ Receive
  \/ ReadError \/ ReadCancelled
  \/ ZombieHandler

RSpec == RInit /\ [][RNext]_vars

\* FaultSpec: one secure client, connected to a peer that may also send what
\* the protocol does not allow: a confirmation with an id that is not
\* pending, the action "/error", an action the client does not know, a pong
\* with a nonce that is not in the ping table
UnexpectedPdus(s) ==
  { [action |-> a, id |-> id, subscription_id |-> "", messages |-> << >>] :
      a \in UNION {TerminalActions(type) : type \in {PUBLISH, SUBSCRIBE, UNSUBSCRIBE}},
      id \in (1..MaxRequestId) \ DOMAIN s._sent_request_infos }
    \cup { [action |-> a, id |-> 0, subscription_id |-> "", messages |-> << >>] :
             a \in {"/error", "rtm/unknown"} }

ReceiveUnexpected ==
  /\ fatal = "" /\ read_op = "pending"
  /\ \E pdu \in UnexpectedPdus(State) :
       Apply(read_handler(Begin, EcOk, pdu, "as_if_valid", "ok"))

PongUnexpected ==
  /\ fatal = "" /\ read_op = "pending" /\ control_callback
  /\ \E value \in (1..MaxRequestId) \ _ping_times : Apply(on_pong(Begin, value))

FaultNext ==
  \/ Start \/ Stop
  \/ Publish({"a"}, MaxRequestId) \/ Subscribe({"cbs"}, MaxRequestId)
  \/ TimerExpires \/ TimerFired(MaxRequestId) \/ TimerCancelled
  \/ RequestDoneOk \/ RequestDoneAborted
  \/ Receive \/ Pong \/ ReadCancelled
  \/ ReceiveUnexpected \/ PongUnexpected

FaultSpec == Init /\ [][FaultNext]_vars

\* ThreadSpec: a thread-checking client in front of one secure client; the
\* application calls it on the loop thread and on a worker thread
TStart(thread) ==
  /\ fatal = "" /\ _client_state = STOPPED
  /\ timer_ready + timer_aborted < MaxQueuedTimers
  /\ Apply(thread_checking_start(BeginOn(thread), "ok"))

TStop(thread) ==
  /\ fatal = "" /\ _client_state = RUNNING
  /\ LET s == thread_checking_stop(BeginOn(thread), EcOk)
     IN Apply(IF Alive(s) THEN QueuedAtStop(s) ELSE s)

TPublish(thread) ==
  /\ fatal = "" /\ _client_state \in {RUNNING, PENDING_STOPPED}
  /\ request_id <= MaxRequestId /\ Len(posted) < MaxPosted
  /\ Apply(thread_checking_publish(BeginOn(thread), "a", "cbs"))

TSubscribe(thread) ==
  /\ fatal = "" /\ _client_state \in {RUNNING, PENDING_STOPPED}
  /\ request_id <= MaxRequestId /\ Len(posted) < MaxPosted
  /\ \E channel \in Channels, sub \in Handles :
       Apply(thread_checking_subscribe(BeginOn(thread), channel, sub, "cbs"))

TUnsubscribe(thread) ==
  /\ fatal = "" /\ _client_state \in {RUNNING, PENDING_STOPPED}
  /\ request_id <= MaxRequestId /\ Len(posted) < MaxPosted
  /\ \E sub \in Handles :
       Apply(thread_checking_unsubscribe(BeginOn(thread), sub, "cbs"))

\* the loop runs the oldest posted call
RunPosted ==
  /\ fatal = "" /\ posted # << >>
  /\ request_id <= MaxRequestId
  /\ Apply(run_posted([Begin EXCEPT !.posted = Tail(@)], Head(posted)))

ThreadNext ==
  \/ \E thread \in Threads :
       \/ TStart(thread) \/ TStop(thread)
       \/ TPublish(thread) \/ TSubscribe(thread) \/ TUnsubscribe(thread)
  \/ RunPosted
  \/ TimerCancelled
  \/ RequestDoneOk \/ RequestDoneAborted
  \/ ReceiveOk \/ ReadCancelled

ThreadSpec == Init /\ [][ThreadNext]_vars

\* PduSpec: subscribe builds and serializes its request, for every channel,
\* every request id and every const subscription_options *options: a null
\* pointer (the empty set) or options whose history.age and history.count
\* are each unset or one of a few values
BuildSubscribe ==
  \E id \in 1..MaxSubRequestId, channel \in Channels,
     options \in {{}} \cup { {[age |-> a, count |-> c]} :
                               a, c \in {{}, {0}, {5}, {60}} } :
    LET request == [id |-> id, channel |-> channel,
                    age |-> IF options # {}
                            THEN (CHOOSE o \in options : TRUE).age ELSE {},
                    count |-> IF options # {}
                              THEN (CHOOSE o \in options : TRUE).count ELSE {}]
    IN /\ built' = << [channel |-> channel, options |-> options,
                       pdu |-> to_json(request)] >>
       /\ UNCHANGED << _client_state, _channel_subscriptions, _ping_times,
                       _sent_request_infos, _pending_requests,
                       _request_in_flight, _common_error_callbacks, instance,
                       request_id, _client, _subscriptions, _started, socket,
                       read_op, io_op, timer_wait, timer_ready, timer_aborted,
                       control_callback, zombies, srv_requests, srv_subs,
                       srv_pings, enqueued, wire, completed, replayed, calls,
                       posted, this_thread, fatal >>

PduSpec == Init /\ [][BuildSubscribe]_vars

\* SerializerSpec: Spec, where the sink of a failed write may publish again
\* from inside on_error
RequestDoneReentered ==
  /\ fatal = "" /\ io_op \in {"pending", "closed"}
  /\ request_id <= MaxRequestId
  /\ Head(_pending_requests).kind = "write"
  /\ Head(_pending_requests).id \in DOMAIN _sent_request_infos
  /\ _sent_request_infos[Head(_pending_requests).id].callbacks # "nullptr"
  /\ \E ub \in UBOutcomes :
       Apply(on_request_done_reentered(Begin, EcError, "b", ub))

SerializerSpec == Init /\ [][Next \/ RequestDoneReentered]_vars

\* LateSpec: Spec, where the transport operation of the request in flight may
\* have completed before stop() closed the socket: close() cannot cancel
\* it any more and its handler, still queued, is invoked with success
RequestDoneLate ==
  /\ fatal = "" /\ io_op = "aborted"
  /\ Apply(on_request_done(server_received(Begin), EcOk, "as_if_valid", "ok"))

LateSpec == Init /\ [][Next \/ RequestDoneLate]_vars

\* FairSpec: Spec, where the event loop runs every handler whose completion
\* is queued: a cancelled read, a cancelled or expired timer, a completed
\* transport operation
FairSpec ==
  /\ Spec
  /\ WF_vars(ReadCancelled) /\ WF_vars(TimerCancelled)
  /\ WF_vars(TimerFired(MaxRequestId))
  /\ WF_vars(RequestDoneAborted) /\ WF_vars(RequestDoneError)

(* -------------------------------- claims ------------------------------ *)

\* C1: the requests handed to the transport are, in order, the requests
\* enqueued by write() and ping(), and a request is handed over only when
\* the operations of all requests before it have completed.
C1_WireOrderIsEnqueueOrder ==
  /\ Len(wire) <= Len(enqueued)
  /\ wire = SubSeq(enqueued, 1, Len(wire))
  /\ completed \in {Len(wire) - 1, Len(wire)}

\* a data write was handed over before a ping enqueued after it, while a
\* third request waited behind the one in flight
C1_Witness ==
  /\ Len(wire) >= 2 /\ Len(_pending_requests) >= 2
  /\ \E i, j \in 1..Len(wire) :
       /\ i < j
       /\ wire[i] \in DOMAIN _sent_request_infos
       /\ wire[j] \in _ping_times

\* C2: after stop() on a RUNNING client the client eventually is STOPPED
\* with an empty subscription registry.
C2_StopReachesStopped ==
  (_client_state = PENDING_STOPPED)
    ~> (_client_state = STOPPED /\ _channel_subscriptions = EmptyMap)

\* C3: whenever the client is STOPPED, the subscription registry, the
\* pending-request table, the ping table and the outbound queue are empty.
C3_StoppedTablesEmpty ==
  _client_state = STOPPED =>
    /\ _channel_subscriptions = EmptyMap
    /\ DOMAIN _sent_request_infos = {}
    /\ _ping_times = {}
    /\ _pending_requests = << >>

\* C4: a frame that does not decode leaves the client RUNNING, the socket
\* open and a new read posted.
C4_DecodeFailureKeepsReading ==
  [][ReceiveUndecodable =>
       (_client_state' = RUNNING /\ socket' = "open" /\ read_op' = "pending")]_vars

\* the connection-level error sink was called by the last handler
SinkCalled(cs) == \E k \in 1..Len(cs) : cs[k].sink = "error_callbacks"

\* C5: a read, a data write or a ping that fails with an error other than a
\* cancellation while the client is RUNNING calls on_error of the
\* connection-level error sink.
C5_TransportErrorReported ==
  [][((ReadError \/ RequestDoneError) /\ _client_state = RUNNING)
       => SinkCalled(calls')]_vars

\* this step removes the pending-request record of request id
RecordRemoved(id) ==
  id \in DOMAIN _sent_request_infos /\ id \notin DOMAIN _sent_request_infos'

\* this step processes a terminal PDU that carries id
TerminalConsumed(id) ==
  \E pdu \in ServerPdus(State) : pdu.id = id /\ ReceivePdu(pdu)

\* this step completes the write of request id with an error or a cancellation
WriteFailed(id) ==
  /\ _pending_requests # << >>
  /\ Head(_pending_requests).kind = "write" /\ Head(_pending_requests).id = id
  /\ (RequestDoneError \/ RequestDoneAborted)

\* C6 as stated: a terminal PDU that carries a request's id removes the
\* request's pending-request record, and nothing else removes it.
C6_RemovedByTerminalOnly ==
  [][\A id \in 1..MaxRequestId :
       /\ TerminalConsumed(id) => RecordRemoved(id)
       /\ RecordRemoved(id) => TerminalConsumed(id)]_vars

\* C6: a terminal PDU that carries a request's id removes the request's
\* pending-request record, so that at most one terminal consumes an id; the
\* only other step that removes the record is the completion of the
\* request's write with an error or a cancellation.
C6_RemovedByTerminalOrFailedWrite ==
  [][\A id \in 1..MaxRequestId :
       /\ TerminalConsumed(id) => RecordRemoved(id)
       /\ RecordRemoved(id) => (TerminalConsumed(id) \/ WriteFailed(id))]_vars

\* the last handler consumed the ok terminal of a request and called its sink
C6_Witness ==
  \E k \in 1..Len(calls) :
    /\ calls[k].sink = "request" /\ calls[k].what = "on_ok"
    /\ calls[k].of \notin DOMAIN _sent_request_infos
    /\ \E id \in DOMAIN _sent_request_infos : id > calls[k].of

\* this step is a restart of a started resilient client in which start()
\* of the fresh client succeeded
RestartedAndStarted ==
  /\ instance > 0 /\ instance' = instance + 1
  /\ _started /\ ~SinkCalled(calls')

\* the channel and the handle of each entry of the desired list, in order
Desired(subs) ==
  [i \in 1..Len(subs) |-> [channel |-> subs[i].channel, sub |-> subs[i].sub]]

\* C7: a restart whose start() succeeds subscribes on the fresh client once
\* for each entry of _subscriptions, in the order of the list, and the fresh
\* client holds no other subscription.
C7_RestartReplaysDesiredList ==
  [][RestartedAndStarted =>
       /\ replayed' = Desired(_subscriptions)
       /\ Len(_channel_subscriptions'._sub_infos) = Len(_subscriptions)]_vars

\* C8: when unsubscribe(sub) of the resilient client returns, _subscriptions
\* is the list it was without the entries of sub.
C8_UnsubscribeRemovesEntry ==
  [][\A sub \in Handles :
       (RUnsubscribeOf(sub) /\ fatal' = "")
         => _subscriptions' = SelectSeq(_subscriptions, LAMBDA si : si.sub # sub)]_vars

\* C9: once every subscribe has been followed by the unsubscribe of its
\* handle and the ok terminals of all requests have been processed (the
\* server holds no subscription and owes no answer, nothing is queued), the
\* subscription registry and the pending-request table are empty.
C9_PairsLeaveNothing ==
  (/\ _pending_requests = << >>
   /\ srv_requests = {} /\ srv_subs = {})
    => /\ _channel_subscriptions = EmptyMap
       /\ DOMAIN _sent_request_infos = {}

\* the per-request sink of request id was called with what by the last handler
SinkOfRequestCalled(cs, id, what) ==
  \E k \in 1..Len(cs) :
    cs[k].sink = "request" /\ cs[k].of = id /\ cs[k].what = what

\* C10: processing subscribe/ok removes the pending-request record and
\* leaves the registry as it is; processing subscribe/error calls on_error
\* of the request's sink with SUBSCRIBE_ERROR, removes the pending-request
\* record and leaves no record for the request's channel in the registry.
C10_SubscribeTerminals ==
  [][\A pdu \in ServerPdus(State) : ReceivePdu(pdu) =>
       /\ pdu.action = "rtm/subscribe/ok" =>
            /\ pdu.id \notin DOMAIN _sent_request_infos'
            /\ _channel_subscriptions' = _channel_subscriptions
       /\ pdu.action = "rtm/subscribe/error" =>
            /\ SinkOfRequestCalled(calls', pdu.id, "SUBSCRIBE_ERROR")
            /\ pdu.id \notin DOMAIN _sent_request_infos'
            /\ find_by_channel(_channel_subscriptions',
                               _sent_request_infos[pdu.id].channel) = {}]_vars

\* this step is unsubscribe(sub) of the secure client, and it returned
UnsubscribeReturned(sub) ==
  /\ fatal = "" /\ _client_state \in {RUNNING, PENDING_STOPPED}
  /\ \E callbacks \in RequestCallbacks : Apply(unsubscribe(Begin, sub, callbacks))
  /\ fatal' = ""

\* the data sink of handle sub was called by the last handler
DataSinkCalled(cs, sub) ==
  \E k \in 1..Len(cs) : cs[k].sink = "subscription" /\ cs[k].of = sub

\* C11: unsubscribe(h) leaves the registry as it is; while the client is
\* RUNNING and the unsubscribe request is pending, the record of its channel
\* stays in the registry and data for the channel reaches the record's data
\* sink; processing unsubscribe/ok or unsubscribe/error removes the
\* pending-request record and the record of the channel.
C11_UnsubscribeKeepsRecordUntilTerminal ==
  [][/\ \A sub \in Handles :
          UnsubscribeReturned(sub) => _channel_subscriptions' = _channel_subscriptions
     /\ \A id \in DOMAIN _sent_request_infos :
          (/\ _sent_request_infos[id].type = UNSUBSCRIBE
           /\ id \in DOMAIN _sent_request_infos'
           /\ _client_state = RUNNING /\ _client_state' = RUNNING)
            => find_by_channel(_channel_subscriptions',
                               _sent_request_infos[id].channel) # {}
     /\ \A pdu \in ServerPdus(State) : ReceivePdu(pdu) =>
          /\ pdu.action = "rtm/subscription/data" =>
               \A sub_info \in find_by_channel(_channel_subscriptions,
                                               pdu.subscription_id) :
                 DataSinkCalled(calls', sub_info.sub)
          /\ pdu.action \in {"rtm/unsubscribe/ok", "rtm/unsubscribe/error"} =>
               /\ pdu.id \notin DOMAIN _sent_request_infos'
               /\ find_by_channel(_channel_subscriptions',
                                  _sent_request_infos[pdu.id].channel) = {}]_vars

\* C12: processing an rtm/subscription/data PDU for a channel that has a
\* record calls on_data of that record's data sink once per element of
\* body.messages, in array order, and calls nothing else; the next PDU is
\* read only after that.
C12_DataDeliveredInWireOrder ==
  [][\A pdu \in {p \in ServerPdus(State) : p.action = "rtm/subscription/data"} :
       ReceivePdu(pdu) =>
         \A sub_info \in find_by_channel(_channel_subscriptions, pdu.subscription_id) :
           /\ calls' = [i \in 1..Len(pdu.messages) |->
                          [sink |-> "subscription", of |-> sub_info.sub,
                           what |-> pdu.messages[i]]]
           /\ read_op' = "pending"]_vars

\* the last handler delivered the elements m2, m1 of one PDU in that order
C12_Witness ==
  /\ Len(calls) = 2
  /\ calls[1].sink = "subscription" /\ calls[1].what = "m2"
  /\ calls[2].sink = "subscription" /\ calls[2].what = "m1"

\* the terminal PDUs the server may send next
TerminalPdus == {p \in ServerPdus(State) : p.id # 0}

OkActions == {"rtm/publish/ok", "rtm/subscribe/ok", "rtm/unsubscribe/ok"}

\* C13: processing a terminal PDU removes the record of the request with
\* its id and calls that request's sink, if it has one, exactly once: on_ok
\* for */ok, on_error with the error of the request's type for */error; a
\* request without a sink gets no call.
C13_TerminalCallsRequestSink ==
  [][\A pdu \in TerminalPdus :
       (ReceivePdu(pdu) /\ pdu.id \in DOMAIN _sent_request_infos) =>
         LET info == _sent_request_infos[pdu.id]
             what == IF pdu.action \in OkActions THEN "on_ok" ELSE ErrorOf(info.type)
         IN /\ pdu.id \notin DOMAIN _sent_request_infos'
            /\ calls' = IF info.callbacks = "nullptr" THEN << >>
                        ELSE << [sink |-> "request", of |-> pdu.id, what |-> what] >>]_vars

\* a publish was answered by rtm/publish/ok: on_ok was called and the
\* pending-request table is empty
C13_Witness ==
  /\ calls = << [sink |-> "request", of |-> 1, what |-> "on_ok"] >>
  /\ DOMAIN _sent_request_infos = {}
  /\ _channel_subscriptions = EmptyMap /\ srv_subs = {} /\ fatal = ""

\* this step runs the completion of the request at the head of the queue
RequestDone == RequestDoneOk \/ RequestDoneError \/ RequestDoneAborted

\* C14: the completion of a data write that was queued or in flight when
\* stop() was called is invoked with an error code: it removes the
\* request's pending-request record and calls on_error of the request's
\* sink, if it has one, with the error of the request's type.
C14_WritesAtStopFail ==
  [][(/\ _pending_requests # << >>
      /\ Head(_pending_requests).kind = "write"
      /\ Head(_pending_requests).at_stop
      /\ Head(_pending_requests).id \in DOMAIN _sent_request_infos
      /\ RequestDone)
       => LET id == Head(_pending_requests).id
              info == _sent_request_infos[id]
          IN /\ id \notin DOMAIN _sent_request_infos'
             /\ info.callbacks # "nullptr"
                  => SinkOfRequestCalled(calls', id, ErrorOf(info.type))]_vars

\* this step is a call of publish, of subscribe, of unsubscribe
PublishCall ==
  \E channel \in Channels, callbacks \in RequestCallbacks :
    Apply(publish(Begin, channel, callbacks))

SubscribeCall ==
  \E channel \in Channels, sub \in Handles, callbacks \in RequestCallbacks :
    Apply(subscribe(Begin, channel, sub, callbacks))

UnsubscribeCall ==
  \E sub \in Handles, callbacks \in RequestCallbacks :
    Apply(unsubscribe(Begin, sub, callbacks))

\* C15: publish, subscribe and unsubscribe called while PENDING_STOPPED
\* return without allocating a request id, without touching the registry,
\* the pending-request table or the outbound queue, and without calling a
\* sink.
C15_NoOpWhilePendingStopped ==
  [][(/\ fatal = "" /\ _client_state = PENDING_STOPPED
      /\ (PublishCall \/ SubscribeCall \/ UnsubscribeCall))
       => /\ fatal' = "" /\ calls' = << >>
          /\ UNCHANGED << request_id, _channel_subscriptions, _sent_request_infos,
                          _pending_requests, enqueued, wire, _client_state >>]_vars

\* the client is PENDING_STOPPED with a subscription record, a pending
\* request and ids left, so that a call that was not a no-op would show
C15_Witness ==
  /\ fatal = "" /\ _client_state = PENDING_STOPPED
  /\ request_id <= MaxRequestId
  /\ _channel_subscriptions # EmptyMap
  /\ DOMAIN _sent_request_infos # {}
  /\ calls = << >>

\* C16: the state of the secure client is STOPPED at first and changes only
\* from STOPPED to RUNNING in start(), from RUNNING to PENDING_STOPPED in
\* stop(), and from PENDING_STOPPED to STOPPED in the read handler called
\* with operation_aborted.
C16_OnlyThreeTransitions ==
  /\ _client_state = STOPPED
  /\ [][_client_state' # _client_state =>
          \/ Start /\ _client_state = STOPPED /\ _client_state' = RUNNING
          \/ Stop /\ _client_state = RUNNING /\ _client_state' = PENDING_STOPPED
          \/ /\ ReadCancelled
             /\ _client_state = PENDING_STOPPED /\ _client_state' = STOPPED]_vars

\* the client is STOPPED again after it ran, sent a request and was stopped
C16_Witness ==
  /\ _client_state = STOPPED /\ fatal = ""
  /\ completed > 0 /\ socket = "closed" /\ read_op = "none"

\* C17: a start() that fails at resolve, connect, handshake or upgrade
\* returns ASIO_ERROR and leaves the client STOPPED, with the ping timer not
\* armed and no read posted.
C17_FailedStartStaysStopped ==
  [][\A outcome \in StartOutcomes \ {"ok"} :
       (fatal = "" /\ _client_state = STOPPED /\ Apply(start(Begin, outcome)))
         => /\ start_result(outcome) = "ASIO_ERROR"
            /\ fatal' = "" /\ _client_state' = STOPPED
            /\ ~timer_wait' /\ read_op' # "pending"
            /\ UNCHANGED << timer_ready, timer_aborted, read_op, io_op >>]_vars

\* the client is STOPPED with a connected socket: start() failed at the
\* handshake or at the upgrade
C17_Witness ==
  /\ _client_state = STOPPED /\ socket = "connected" /\ fatal = ""
  /\ ~timer_wait /\ read_op = "none"

\* this step is the read handler of a RUNNING client of the resilient
\* client called with a transport error, start() of the fresh client getting
\* as far as outcome
InnerReadError(outcome) ==
  /\ fatal = "" /\ _common_error_callbacks = "resilient_client"
  /\ _client_state = RUNNING /\ read_op \in {"pending", "closed"}
  /\ Apply(read_handler(Begin, EcError, Undecodable, "as_if_valid", outcome))

\* the fields of the fresh client show that it was constructed and that
\* nothing was started on it or subscribed through it
FreshClientIdle ==
  /\ instance' = instance + 1 /\ fatal' = ""
  /\ _client_state' = STOPPED /\ read_op' = "none" /\ ~timer_wait'
  /\ replayed' = << >>
  /\ _channel_subscriptions' = EmptyMap /\ DOMAIN _sent_request_infos' = {}

DuplicateSubscribe ==
  /\ fatal = ""
  /\ \E channel \in Channels, sub \in Handles, callbacks \in RequestCallbacks :
       /\ \/ find_by_channel(_channel_subscriptions, channel) # {}
          \/ find_by_sub(_channel_subscriptions, sub) # {}
       /\ Apply(subscribe(Begin, channel, sub, callbacks))

\* the step ends the process and does nothing else: no sink is called, no
\* table and no queue changes, nothing is written
FatalAndNothingElse ==
  /\ fatal' # "" /\ calls' = << >>
  /\ UNCHANGED << _client_state, _channel_subscriptions, _sent_request_infos,
                  _ping_times, _pending_requests, wire >>

\* C19 as stated: a pong with a nonce that is not in the ping table, a
\* confirmation with an id that is not in the pending-request table, a PDU
\* with the action "/error" or an unknown action, and a subscribe for a
\* channel or a handle already in the registry each end the process and do
\* nothing else.
C19_AnyDuplicateSubscribeIsFatal ==
  [][(ReceiveUnexpected \/ PongUnexpected \/ DuplicateSubscribe)
       => FatalAndNothingElse]_vars

\* C19: an unknown pong nonce, a confirmation with an unknown id, the action
\* "/error" and an unknown action each end the process and do nothing else;
\* a subscribe for a channel or a handle already in the registry does so
\* when the client is RUNNING (while PENDING_STOPPED it returns silently).
C19_InvariantViolationIsFatal ==
  [][(\/ ReceiveUnexpected \/ PongUnexpected
      \/ (_client_state = RUNNING /\ DuplicateSubscribe))
       => FatalAndNothingElse]_vars

\* the process ended on a pong with an unknown nonce while a ping had no pong
C19_Witness ==
  /\ fatal = "on_pong: unexpected pong value"
  /\ _ping_times # {} /\ calls = << >>

\* the registry, the pending-request table, the ping table and the outbound
\* queue of the client
Tables ==
  << _channel_subscriptions, _sent_request_infos, _ping_times, _pending_requests >>

\* this step is a publish, subscribe or unsubscribe of the thread-checking
\* client on a thread that is not the loop's, or a start or stop on one
ForwardedCall(thread) ==
  TPublish(thread) \/ TSubscribe(thread) \/ TUnsubscribe(thread)

LifecycleCall(thread) == TStart(thread) \/ TStop(thread)

\* C20: behind the thread-checking client, a publish, subscribe or
\* unsubscribe made on another thread is posted to the loop and changes
\* nothing else on the calling thread; the loop runs the posted call; a start
\* or stop on another thread is an assertion failure; every change of the
\* registry, the pending-request table, the ping table and the outbound
\* queue is made by a step of the loop thread.
C20_MutationsOnLoopThread ==
  [][/\ \A thread \in Threads \ {_io_thread_id} :
          /\ ForwardedCall(thread)
               => /\ Len(posted') = Len(posted) + 1
                  /\ fatal' = "" /\ calls' = << >>
                  /\ UNCHANGED << Tables, _client_state, request_id, wire >>
          /\ LifecycleCall(thread) => fatal' # "" /\ UNCHANGED << Tables, _client_state >>
     /\ RunPosted => this_thread' = _io_thread_id /\ posted' = Tail(posted)
     /\ Tables' # Tables => this_thread' = _io_thread_id]_vars

\* a publish posted by the worker thread waits for the loop, the tables as
\* they were
C20_Witness ==
  /\ this_thread = "worker" /\ fatal = ""
  /\ posted # << >> /\ posted[Len(posted)].op = PUBLISH
  /\ _client_state = RUNNING /\ _sent_request_infos = << >>

\* HandoffSpec: the thread-checking client, where the loop thread starts and
\* stops the client and a worker thread makes its calls while the client is
\* RUNNING; the loop runs a posted call at any later point
HandoffNext ==
  \/ TStart(_io_thread_id) \/ TStop(_io_thread_id)
  \/ /\ _client_state = RUNNING
     /\ \E thread \in Threads \ {_io_thread_id} : ForwardedCall(thread)
  \/ RunPosted
  \/ TimerCancelled
  \/ RequestDoneOk \/ RequestDoneAborted
  \/ ReceiveOk \/ ReadCancelled

HandoffSpec == Init /\ [][HandoffNext]_vars

\* C21: a publish, subscribe or unsubscribe made on another thread while the
\* client is RUNNING is executed while RUNNING or is a silent no-op, however
\* the posted call interleaves with stop() and the cancellation of the read:
\* it never ends in the fatal "client is not running" check.
C21_PostedCallNeverNotRunning ==
  fatal \notin { "publish: client is not running",
                 "subscribe: client is not running",
                 "unsubscribe: client is not running" }

\* C22: the subscribe PDU built for subscribe(c, opts) has body.channel =
\* body.subscription_id = c; body.history is present exactly when age or
\* count is set, and then holds exactly the fields that are set, with their
\* values.
C22_SubscribePduBody ==
  \A i \in 1..Len(built) :
    LET c == built[i].channel
        body == built[i].pdu.body
        set == IF built[i].options = {} THEN [age |-> {}, count |-> {}]
               ELSE CHOOSE o \in built[i].options : TRUE
        fields == {k \in {"age", "count"} : set[k] # {}}
    IN /\ built[i].pdu.action = "rtm/subscribe"
       /\ body.channel = c /\ body.subscription_id = c
       /\ ("history" \in DOMAIN body) <=> (fields # {})
       /\ DOMAIN body \subseteq {"channel", "subscription_id", "history"}
       /\ fields # {} =>
            /\ DOMAIN body.history = fields
            /\ \A k \in fields : set[k] = {body.history[k]}

\* subscribe("a", {age: 60, count: 5}) was serialized, and so was a
\* subscribe with only the age set
C22_Witness ==
  /\ built # << >>
  /\ built[1].pdu.body = [channel |-> "a", subscription_id |-> "a",
                          history |-> [age |-> 60, count |-> 5]]

\* C23: while the process runs, _request_in_flight is true exactly when the
\* head of the outbound queue has been handed to the transport and its
\* operation is outstanding, at most one operation is outstanding, and no
\* request waits in the queue while nothing is in flight; this holds also
\* after drain_requests was re-entered from a completion sink.
C23_InFlightIffHeadOutstanding ==
  fatal = "" =>
    /\ Len(wire) - completed = (IF _request_in_flight THEN 1 ELSE 0)
    /\ _request_in_flight <=> io_op # "none"
    /\ _request_in_flight =>
         /\ _pending_requests # << >>
         /\ Head(_pending_requests).id = wire[Len(wire)]
    /\ ~_request_in_flight => _pending_requests = << >>

\* the publish a failed write's sink made from inside on_error is in flight:
\* it was enqueued behind the completed request and started after the pop
C23_Witness ==
  /\ fatal = "" /\ _request_in_flight /\ calls # << >>
  /\ Len(_pending_requests) = 1
  /\ Head(_pending_requests).id \in DOMAIN _sent_request_infos
  /\ _sent_request_infos[Head(_pending_requests).id].channel = "b"

\* C24: the erase of the subscription record that the terminals
\* subscribe/error, unsubscribe/ok and unsubscribe/error assert succeeds:
\* the process never ends in the "failed to delete" check.
C24_TerminalEraseSucceeds == fatal # "failed to delete"

\* C25: the pending-request record of id i is created by the publish,
\* subscribe or unsubscribe call that enqueues the write of i, and by no
\* other step; it is removed by the step that processes a terminal PDU with
\* id i and by the completion of the write of i with an error, and by no
\* other step; the successful completion of the write of i leaves it.
C25_RecordFromEnqueueToTerminal ==
  [][\A id \in 1..MaxRequestId :
       LET before == id \in DOMAIN _sent_request_infos
           after == id \in DOMAIN _sent_request_infos'
           is_head == /\ _pending_requests # << >>
                      /\ Head(_pending_requests).kind = "write"
                      /\ Head(_pending_requests).id = id
       IN /\ (~before /\ after)
            <=> /\ PublishCall \/ SubscribeCall \/ UnsubscribeCall
                /\ enqueued' = Append(enqueued, id)
                /\ _pending_requests' # << >>
                /\ _pending_requests'[Len(_pending_requests')] = io_request("write", id)
          /\ (before /\ ~after) => (TerminalConsumed(id) \/ WriteFailed(id))
          /\ (before /\ (TerminalConsumed(id) \/ WriteFailed(id))) => ~after
          /\ (before /\ is_head /\ RequestDoneOk) => after]_vars

\* the write of a request has completed successfully, the server has the
\* request and has not answered: the record is in place
C25_Witness ==
  /\ fatal = ""
  /\ \E r \in srv_requests :
       /\ r.id \in DOMAIN _sent_request_infos
       /\ \A i \in 1..Len(_pending_requests) : _pending_requests[i].id # r.id

\* C26: whenever the secure client is STOPPED, the ping timer is not armed
\* and no read is outstanding on the transport.
C26_StoppedHasNoTimerNoRead ==
  (fatal = "" /\ _client_state = STOPPED) => (~timer_wait /\ read_op = "none")

\* C27: the two indexes of the subscription registry hold the same set of
\* records, those of the backing list: each channel and each handle appears
\* at most once, the record found by a channel is the record found by its
\* handle, and that record names the channel and the handle it is found by.
C27_RegistryIndexesAgree ==
  LET m == _channel_subscriptions
      n == Len(m._sub_infos)
      records == {m._sub_infos[i] : i \in 1..n}
  IN /\ \A i, j \in 1..n :
          i # j => /\ m._sub_infos[i].channel # m._sub_infos[j].channel
                   /\ m._sub_infos[i].sub # m._sub_infos[j].sub
     /\ DOMAIN m._channels_map = {r.channel : r \in records}
     /\ DOMAIN m._subs_map = {r.sub : r \in records}
     /\ \A r \in records :
          /\ m._channels_map[r.channel] = r
          /\ m._subs_map[r.sub] = r
          /\ find_by_sub(m, r.sub) = find_by_channel(m, r.channel)

\* a terminal removed the record of channel a and left that of channel b,
\* which was added after it
C27_Witness ==
  /\ fatal = "" /\ Len(_channel_subscriptions._sub_infos) = 1
  /\ _channel_subscriptions._sub_infos[1].channel = "b"
  /\ request_id >= 4 /\ calls # << >>
  /\ \A id \in DOMAIN _sent_request_infos : _sent_request_infos[id].channel = "b"

\* C28: subscribe(c, h) inserts the record of c before it enqueues the
\* request: the step that enqueues a subscribe request for c is the step
\* that inserts the record of c, a subscribe that aborts in add has enqueued
\* nothing, and a subscribe/ok is processed only for a request that such a
\* step enqueued, so the record of its channel was inserted before.
C28_RecordInsertedBeforeEnqueue ==
  /\ [](fatal \in {"add: already exists for channel", "add: already exists for sub"}
          => /\ request_id - 1 \notin DOMAIN _sent_request_infos
             /\ \A i \in 1..Len(enqueued) : enqueued[i] # request_id - 1)
  /\ [][/\ \A id \in 1..MaxRequestId :
             (/\ id \notin DOMAIN _sent_request_infos
              /\ id \in DOMAIN _sent_request_infos'
              /\ _sent_request_infos'[id].type = SUBSCRIBE)
               => /\ find_by_channel(_channel_subscriptions,
                                     _sent_request_infos'[id].channel) = {}
                  /\ find_by_channel(_channel_subscriptions',
                                     _sent_request_infos'[id].channel) # {}
                  /\ enqueued' = Append(enqueued, id)
        /\ \A pdu \in UnexpectedPdus(State) :
             (/\ pdu.action = "rtm/subscribe/ok"
              /\ fatal = "" /\ read_op = "pending"
              /\ Apply(read_handler(Begin, EcOk, pdu, "as_if_valid", "ok")))
               => fatal' # ""
        /\ \A pdu \in ServerPdus(State) :
             (pdu.action = "rtm/subscribe/ok" /\ ReceivePdu(pdu) /\ fatal' = "")
               => /\ pdu.id \in DOMAIN _sent_request_infos
                  /\ _sent_request_infos[pdu.id].type = SUBSCRIBE]_vars

\* a subscribe/ok was processed for a subscribe request while the record of
\* its channel is in the registry
C28_Witness ==
  /\ fatal = "" /\ calls # << >> /\ calls[1].what = "on_ok"
  /\ _channel_subscriptions._sub_infos # << >>
  /\ \E r \in srv_subs : find_by_channel(_channel_subscriptions, r) # {}

\* C29: the timer handler called without error records a fresh nonce in the
\* ping table and enqueues one ping with it; the timer is armed only by
\* start() and by the successful completion of a ping; the completion of a
\* ping with an error or a cancellation arms nothing and enqueues nothing;
\* and when a ping fails on the open connection the timer is not armed, no
\* timer handler is queued and no ping waits in the queue, so that no
\* further ping is scheduled on that connection.
C29_PingChainStopsOnFailure ==
  [][LET head_is_ping == /\ _pending_requests # << >>
                         /\ Head(_pending_requests).kind = "ping"
     IN /\ (TimerFired(MaxRequestId) /\ fatal' = "") =>
             /\ request_id \notin _ping_times
             /\ _ping_times' = _ping_times \cup {request_id}
             /\ request_id' = request_id + 1
             /\ enqueued' = Append(enqueued, request_id)
             /\ _pending_requests' # << >>
             /\ _pending_requests'[Len(_pending_requests')] =
                  io_request("ping", request_id)
        /\ (timer_wait' /\ (~timer_wait \/ timer_aborted' > timer_aborted)) =>
             \/ Start
             \/ head_is_ping /\ RequestDoneOk
        /\ (head_is_ping /\ (RequestDoneError \/ RequestDoneAborted) /\ fatal' = "") =>
             /\ UNCHANGED << timer_wait, timer_ready, timer_aborted,
                             _ping_times, request_id, enqueued >>
             /\ (io_op = "pending") =>
                  /\ ~timer_wait' /\ timer_ready' = 0
                  /\ \A i \in 1..Len(_pending_requests') :
                       _pending_requests'[i].kind # "ping"]_vars

\* C30: a timer handler that runs after stop(), while the client is
\* PENDING_STOPPED or STOPPED, abandons the ping, whether stop() came before
\* or after the expiry of the timer: it allocates no nonce, adds nothing to
\* the ping table, enqueues no ping, does not arm the timer and does not call
\* the connection-level error sink.
C30_StoppedTimerAbandonsPing ==
  [][((TimerFired(MaxRequestId) \/ TimerCancelled)
        /\ _client_state \in {PENDING_STOPPED, STOPPED})
       => /\ UNCHANGED << request_id, _ping_times, _pending_requests, enqueued,
                          timer_wait >>
          /\ ~SinkCalled(calls')]_vars

\* C31: processing rtm/subscription/error for a channel that has a record
\* calls on_error(SUBSCRIPTION_ERROR) of the data sink of that record, and
\* nothing else, and leaves the registry and the pending-request table as
\* they are; the record of a channel the server holds a subscription for is
\* removed only by a terminal of an unsubscribe of that channel, by the
\* rtm/subscribe/error of a subscribe of that channel, and by the teardown of
\* the connection (the cancelled read of a stopped client).
C31_SubscriptionErrorKeepsRecord ==
  [][/\ \A pdu \in ServerPdus(State) :
          (/\ pdu.action = "rtm/subscription/error"
           /\ find_by_channel(_channel_subscriptions, pdu.subscription_id) # {}
           /\ ReceivePdu(pdu))
            => /\ fatal' = ""
               /\ \E d \in find_by_channel(_channel_subscriptions, pdu.subscription_id) :
                    calls' = << [sink |-> "subscription", of |-> d.sub,
                                 what |-> "SUBSCRIPTION_ERROR"] >>
               /\ UNCHANGED << _channel_subscriptions, _sent_request_infos >>
     /\ \A c \in srv_subs :
          (/\ find_by_channel(_channel_subscriptions, c) # {}
           /\ find_by_channel(_channel_subscriptions', c) = {})
            => \/ ReadCancelled
               \/ \E pdu \in ServerPdus(State) :
                    /\ pdu.action \in TerminalActions(UNSUBSCRIBE)
                                       \cup {"rtm/subscribe/error"}
                    /\ pdu.id \in DOMAIN _sent_request_infos
                    /\ _sent_request_infos[pdu.id].channel = c
                    /\ ReceivePdu(pdu)]_vars

\* the last handler reported a subscription error to the data sink of h1, and
\* the record of its channel is in the registry
C31_Witness ==
  /\ fatal = ""
  /\ calls = << [sink |-> "subscription", of |-> "h1", what |-> "SUBSCRIPTION_ERROR"] >>
  /\ find_by_sub(_channel_subscriptions, "h1") # {}

\* C31 as stated: the same, with the terminal of an unsubscribe and the
\* teardown of the connection as the only steps that remove the record.
C31_RecordRemovedOnlyByUnsubscribe ==
  [][/\ \A pdu \in ServerPdus(State) :
          (/\ pdu.action = "rtm/subscription/error"
           /\ find_by_channel(_channel_subscriptions, pdu.subscription_id) # {}
           /\ ReceivePdu(pdu))
            => /\ fatal' = ""
               /\ \E d \in find_by_channel(_channel_subscriptions, pdu.subscription_id) :
                    calls' = << [sink |-> "subscription", of |-> d.sub,
                                 what |-> "SUBSCRIPTION_ERROR"] >>
               /\ UNCHANGED << _channel_subscriptions, _sent_request_infos >>
     /\ \A c \in srv_subs :
          (/\ find_by_channel(_channel_subscriptions, c) # {}
           /\ find_by_channel(_channel_subscriptions', c) = {})
            => \/ ReadCancelled
               \/ \E pdu \in ServerPdus(State) :
                    /\ pdu.action \in TerminalActions(UNSUBSCRIBE)
                    /\ pdu.id \in DOMAIN _sent_request_infos
                    /\ _sent_request_infos[pdu.id].channel = c
                    /\ ReceivePdu(pdu)]_vars

\* C32: the counter behind new_request_id never goes back; every key of the
\* pending-request table and of the ping table was handed out before (it is
\* below the counter) and the two tables share no key; a key that a step adds
\* to either table is the id that step was handed, at or above the counter
\* the step started with, so above every id handed out before and never
\* inserted a second time, over stop() and start() as well.
C32_RequestIdsStrictlyIncrease ==
  /\ [](/\ \A k \in DOMAIN _sent_request_infos \cup _ping_times : k < request_id
        /\ DOMAIN _sent_request_infos \cap _ping_times = {})
  /\ [][/\ request_id' >= request_id
        /\ \A k \in (DOMAIN _sent_request_infos' \ DOMAIN _sent_request_infos)
                      \cup (_ping_times' \ _ping_times) :
             request_id <= k /\ k < request_id']_vars

\* a request id, a later ping nonce and a still later request id are in their
\* tables at once
C32_Witness ==
  /\ fatal = ""
  /\ DOMAIN _sent_request_infos = {1, 3}
  /\ _ping_times = {2}
  /\ request_id = 4

\* RPingSpec: the resilient client with the ping chain of its inner client
\* running; no subscriptions
RPingSpec ==
  RInit /\ [][\/ RStart \/ RStop
               \/ TimerExpires \/ TimerFired(MaxRequestId) \/ TimerCancelled
               \/ RequestDoneOk \/ RequestDoneError \/ RequestDoneAborted
               \/ Pong \/ ReadError \/ ReadCancelled
               \/ ZombieHandler]_vars

\* C33: a read that completes with a cancellation code finds its client in
\* PENDING_STOPPED, so the assertion of the read handler holds; no client is
\* destroyed with its read outstanding, restart() of the resilient client
\* included.
C33_CancelledReadFindsPendingStopped ==
  /\ [](/\ read_op \in {"aborted", "closed"} => _client_state = PENDING_STOPPED
        /\ "read" \notin zombies)
  /\ [][ReadCancelled => fatal' = ""]_vars

\* C34: a subscribe/error or unsubscribe terminal of request r that is
\* processed while a later subscribe (a higher id, still pending) holds the
\* record of the same channel leaves that record in the registry.
C34_TerminalRemovesOwnRecordOnly ==
  [][\A pdu \in ServerPdus(State) :
       (/\ pdu.action \in TerminalActions(UNSUBSCRIBE) \cup {"rtm/subscribe/error"}
        /\ pdu.id \in DOMAIN _sent_request_infos
        /\ find_by_channel(_channel_subscriptions,
                           _sent_request_infos[pdu.id].channel) # {}
        /\ \E later \in DOMAIN _sent_request_infos :
             /\ later > pdu.id
             /\ _sent_request_infos[later].type = SUBSCRIBE
             /\ _sent_request_infos[later].channel = _sent_request_infos[pdu.id].channel
        /\ ReceivePdu(pdu))
         => find_by_channel(_channel_subscriptions',
                            _sent_request_infos[pdu.id].channel)
              = find_by_channel(_channel_subscriptions,
                                _sent_request_infos[pdu.id].channel)]_vars

\* C35: when the write of a subscribe request fails while the client is
\* RUNNING and its pending-request record is dropped, the registry keeps no
\* record of its channel (no other subscribe of that channel is pending and
\* the server holds no subscription of it), so a repeated subscribe of the
\* channel passes the duplicate check of the registry.
C35_FailedSubscribeLeavesNoRecord ==
  [][\A id \in DOMAIN _sent_request_infos :
       (/\ _sent_request_infos[id].type = SUBSCRIBE
        /\ _client_state = RUNNING
        /\ _sent_request_infos[id].channel \notin srv_subs
        /\ \A other \in DOMAIN _sent_request_infos \ {id} :
             _sent_request_infos[other].channel # _sent_request_infos[id].channel
        /\ WriteFailed(id)
        /\ RecordRemoved(id)
        /\ _client_state' = RUNNING)
         => find_by_channel(_channel_subscriptions',
                            _sent_request_infos[id].channel) = {}]_vars

\* C36: a step that calls the sink of request id calls it once (on_ok or one
\* on_error), finds the record of id in the pending-request table and, unless
\* the step aborts the process, removes it; a record that enters the table carries the id the step was handed,
\* above every id handed out before, so the record of id never comes back
\* and the sink of the request is not called a second time.
C36_RequestSinkCalledAtMostOnce ==
  /\ [](\A id \in DOMAIN _sent_request_infos : id < request_id)
  /\ [][\A id \in 1..MaxRequestId :
          /\ (\E i \in 1..Len(calls') :
                calls'[i].sink = "request" /\ calls'[i].of = id)
               => /\ Cardinality({i \in 1..Len(calls') :
                        calls'[i].sink = "request" /\ calls'[i].of = id}) = 1
                  /\ id \in DOMAIN _sent_request_infos
                  /\ _sent_request_infos[id].callbacks # "nullptr"
                  /\ fatal' = "" => id \notin DOMAIN _sent_request_infos'
          /\ (id \notin DOMAIN _sent_request_infos
              /\ id \in DOMAIN _sent_request_infos')
               => id = request_id /\ request_id' > id]_vars

\* requests 1 and 2 were queued at stop(); both writes failed, the record of
\* each is gone, and the last handler called the sink of request 2 once
C36_Witness ==
  /\ fatal = ""
  /\ calls = << [sink |-> "request", of |-> 2, what |-> "PUBLISH_ERROR"] >>
  /\ _client_state \in {PENDING_STOPPED, STOPPED}
  /\ 1 \notin DOMAIN _sent_request_infos
  /\ 2 \notin DOMAIN _sent_request_infos

\* the handler of a completed wait of the ping timer is called with an error
\* code that is not a cancellation: the wait failed rather than expired
TimerFailed ==
  /\ fatal = "" /\ timer_ready > 0
  /\ MayReport
  /\ \E outcome \in Outcomes :
       Apply(timer_handler([Begin EXCEPT !.timer_ready = @ - 1], EcError, outcome))

\* the read had completed with a transport error before stop() closed the
\* socket: close() cancels nothing, the handler is called with that error
ReadErrorLate ==
  /\ fatal = "" /\ read_op = "aborted"
  /\ Apply(read_handler(Begin, EcError, Undecodable, "as_if_valid", "ok"))

\* PingSpec: one secure client whose inbound frames are pongs only: the ping
\* chain, the read and the lifecycle, with the completions stop() comes too
\* late to cancel.  Here the client is RUNNING with no read outstanding only
\* after its read handler reported a transport error.
PingSpec ==
  Init /\ [][\/ Start \/ Stop
             \/ TimerExpires \/ TimerFired(MaxRequestId) \/ TimerCancelled
             \/ TimerFailed \/ ReadErrorLate
             \/ RequestDoneOk \/ RequestDoneError \/ RequestDoneAborted
             \/ Pong \/ ReadError \/ ReadCancelled]_vars

\* C37: the connection-level error sink is called at most once for one
\* connection: no step reports to it on a connection whose read has already
\* ended with a reported error, a failing ping included.
C37_OneReportPerConnection ==
  [][SinkCalled(calls') => ~(_client_state = RUNNING /\ read_op = "none")]_vars

\* C38: the desired-subscription list of the resilient client holds no two
\* entries with the same channel or the same handle.
C38_DesiredListHasNoDuplicates ==
  \A i, j \in 1..Len(_subscriptions) :
    i # j => /\ _subscriptions[i].channel # _subscriptions[j].channel
             /\ _subscriptions[i].sub # _subscriptions[j].sub

\* C39: the connection-level error sink is called only by a read handler, a
\* ping-timer handler or a ping completion that is called with an error code
\* other than a cancellation while the client is RUNNING; the same handlers
\* called in PENDING_STOPPED or STOPPED, and every handler called with a
\* cancellation code, call no sink.
C39_ReportsOnlyWhileRunning ==
  [][/\ SinkCalled(calls')
          => /\ _client_state = RUNNING
             /\ ReadError \/ TimerFailed \/ RequestDoneError
     /\ (ReadCancelled \/ TimerCancelled \/ RequestDoneAborted
         \/ (/\ _client_state # RUNNING
             /\ ReadError \/ ReadErrorLate \/ TimerFailed \/ RequestDoneError))
          => calls' = << >>]_vars

\* the sink was called by the ping chain (the read is still outstanding) and
\* the client is RUNNING
C39_Witness ==
  /\ fatal = ""
  /\ SinkCalled(calls)
  /\ _client_state = RUNNING
  /\ read_op = "pending"

\* C40: at most one ping is pending per client: the outbound queue never holds
\* two Ping requests, and it holds none while the ping timer is armed.
C40_AtMostOnePingPending ==
  LET pings == Len(SelectSeq(_pending_requests, LAMBDA r : r.kind = "ping"))
  IN /\ pings <= 1
     /\ timer_wait => pings = 0

====
